---- MODULE Spec2Model ----
(***************************************************************************)
(* Model of kmazi/simple_data_mapping: the polling loop of main.execute,   *)
(* the asyncio fan-out over Article.details, util.fetch, util.to_datetime  *)
(* and the section mapping of Article._extract_sections.                   *)
(*                                                                         *)
(* Python dictionaries are functions whose domain is the set of keys that  *)
(* are present; d.get(k) returning None is "k \notin DOMAIN d".  Strings   *)
(* that the code parses (the date-times) are sequences of tokens, so that  *)
(* strptime is modelled by what it does.  An exception is a string naming  *)
(* its Python type and the statement that raised it.  A JSON null inside a *)
(* payload is not distinguished from a missing key.                        *)
(***************************************************************************)
EXTENDS Integers, Sequences, FiniteSets, TLC

\* ---------------------------------------------------------------- bounds
MaxHeadings == 3      \* headings in one catalog listing
MaxSections == 3      \* raw section descriptors in one detail payload
MaxCycles   == 2      \* polling cycles explored

\* ------------------------------------------------------------ dictionaries
EmptyDict == [k \in {} |-> ""]

Has(d, k) == k \in DOMAIN d

\* dict.update: the keys of val override those of d
DictUpdate(d, val) ==
    [k \in (DOMAIN d) \cup (DOMAIN val) |-> IF k \in DOMAIN val THEN val[k] ELSE d[k]]

Range(s) == {s[i] : i \in DOMAIN s}

\* ------------------------------------------------------------- date-times
\* "2020-07-08-20;50;43" and "2020-07-08-20:50:43" as the provider sends them
PubDateStr == <<"2020", "-", "07", "-", "08", "-", "20", ";", "50", ";", "43">>
ModDateStr == <<"2020", "-", "07", "-", "09", "-", "08", ":", "15", ":", "00">>
ModDateSemi == <<"2020", "-", "07", "-", "09", "-", "08", ";", "15", ";", "00">>
BadDateStr == <<"2020", "-", "07", "-", "08">>

\* datetime.now() of the resolution
NowInstant == <<"2026", "11", "05", "10", "21", "00">>

\* datetime.isoformat(): 'T' between date and time, and the microseconds
\* are printed unless they are zero
isoformat(dt, micro) ==
    LET base == <<dt[1], "-", dt[2], "-", dt[3], "T", dt[4], ":", dt[5], ":", dt[6]>>
    IN  IF micro THEN base \o <<".", "123456">> ELSE base

\* datetime.strptime(s, "%Y-%m-%d-%H{sep}%M{sep}%S") accepts exactly eleven
\* tokens with '-' after year, month and day and sep inside the time
strptime_ok(s, sep) ==
    /\ Len(s) = 11
    /\ s[2] = "-" /\ s[4] = "-" /\ s[6] = "-"
    /\ s[8] = sep /\ s[10] = sep

to_datetime(s, sep) == <<s[1], s[3], s[5], s[7], s[9], s[11]>>

\* ------------------------------------------------------------- validation
ValidUrls == {"https://x/y.jpg", "https://x/v.mp4"}
IsHttpUrl(u) == u \in ValidUrls
IsInt(v) == v \in {"1", "2", "120"}

\* Template.substitute: the article id spliced into the fixed address
ARTICLE_DETAIL_URL(article_id) == <<"https://host/data/articles/", article_id, ".json">>
BASE_MEDIA_URL(article_id) == <<"https://host/data/media/", article_id, ".json">>

\* ------------------------------------------------------------ _map_section
NoSchema == [section_type |-> "None", fields |-> <<>>]

mapper ==
    [text   |-> [section_type |-> "TextSection", fields |-> <<"type", "text">>],
     media  |-> [section_type |-> "MediaSection",
                 fields |-> <<"type", "id", "url", "thumbnail", "caption", "author",
                              "publication_date", "modification_date", "duration">>],
     image  |-> [section_type |-> "ImageSection",
                 fields |-> <<"type", "url", "alt", "caption", "source">>],
     lead   |-> [section_type |-> "LeadSection", fields |-> <<"type", "text">>],
     title  |-> [section_type |-> "TitleSection", fields |-> <<"type", "text">>],
     header |-> [section_type |-> "HeaderSection", fields |-> <<"type", "level", "text">>]]

\* mapper.get(stype): None for a type that is not a key
_map_section(stype) == IF stype \in DOMAIN mapper THEN mapper[stype] ELSE NoSchema

\* the literal each section class demands of its type field
TypeLiteral(section_type) ==
    CASE section_type = "TextSection"   -> "text"
      [] section_type = "TitleSection"  -> "title"
      [] section_type = "LeadSection"   -> "lead"
      [] section_type = "HeaderSection" -> "header"
      [] section_type = "ImageSection"  -> "image"
      [] section_type = "MediaSection"  -> "media"
      [] OTHER -> "None"

\* pydantic validation of SectionType(**section_data)
SectionValid(section_type, data) ==
    /\ Has(data, "type") /\ data["type"] = TypeLiteral(section_type)
    /\ section_type \in {"TextSection", "TitleSection", "LeadSection"}
          => Has(data, "text")
    /\ section_type = "HeaderSection"
          => Has(data, "text") /\ Has(data, "level") /\ IsInt(data["level"])
    /\ section_type = "ImageSection"
          => Has(data, "url") /\ IsHttpUrl(data["url"])
    /\ section_type = "MediaSection"
          => /\ Has(data, "id")
             /\ Has(data, "url") /\ IsHttpUrl(data["url"])
             /\ Has(data, "publication_date")
             /\ Has(data, "thumbnail") => IsHttpUrl(data["thumbnail"])
             /\ Has(data, "duration") => IsInt(data["duration"])

\* the field loop of _extract_sections and the construction of the section:
\* every field is header.get(field) except publication_date, which is parsed
\* from header["pub_date"] with ';'
BuildSection(s_type, header) ==
    LET fields == Range(s_type.fields)
        needsPub == "publication_date" \in fields
    IN  IF needsPub /\ ~Has(header, "pub_date")
        THEN [ok |-> FALSE, exc |-> "KeyError:pub_date", section |-> EmptyDict]
        ELSE IF needsPub /\ ~strptime_ok(header["pub_date"], ";")
        THEN [ok |-> FALSE, exc |-> "ValueError:section_pub_date", section |-> EmptyDict]
        ELSE LET present == {f \in fields : IF f = "publication_date" THEN TRUE
                                                                         ELSE Has(header, f)}
                 section_data ==
                     [f \in present |-> IF f = "publication_date"
                                        THEN to_datetime(header["pub_date"], ";")
                                        ELSE header[f]]
             IN  IF SectionValid(s_type.section_type, section_data)
                 THEN [ok |-> TRUE, exc |-> "", section |-> section_data]
                 ELSE [ok |-> FALSE, exc |-> "ValidationError:section",
                       section |-> EmptyDict]

\* ------------------------------------------------------------------ fetch
\* What the transport hands to one GET: a connection error, or a response
\* with a status and a body that is JSON text (json is its value, null for
\* the JSON null) or is not
NetError == [kind |-> "transport_error", status |-> 0, body |-> "none"]
NetStatus(code) == [kind |-> "response", status |-> code, body |-> "garbage"]
NetGarbage == [kind |-> "response", status |-> 200, body |-> "garbage"]
NetNull == [kind |-> "response", status |-> 200, body |-> "null"]
NetJson == [kind |-> "response", status |-> 200, body |-> "json"]
\* no request made yet
NetNone == [kind |-> "none", status |-> 0, body |-> "none"]

\* util.fetch: the try block covers session.get and raise_for_status, the
\* else block (response.json()) is outside every handler.  none says the
\* returned value is None, raised that an exception left fetch.
fetch(net) ==
    IF net.kind = "transport_error" THEN [raised |-> FALSE, none |-> TRUE, exc |-> ""]
    ELSE IF net.status >= 400 THEN [raised |-> FALSE, none |-> TRUE, exc |-> ""]
    ELSE IF net.body = "garbage"
         THEN [raised |-> TRUE, none |-> FALSE, exc |-> "JSONDecodeError:fetch"]
    ELSE IF net.body = "null" THEN [raised |-> FALSE, none |-> TRUE, exc |-> ""]
    ELSE [raised |-> FALSE, none |-> FALSE, exc |-> ""]

\* ------------------------------------------------------------ media index
\* image_media_data of _extract_sections: {} at first, then None or the
\* dictionary id -> record built by _fetch_media_details
EmptyImd == [none |-> FALSE, map |-> EmptyDict]
NoneImd == [none |-> TRUE, map |-> EmptyDict]

\* the loop of _fetch_media_details: a later record of the same id wins
MediaIndex(media_data) ==
    LET ids == {media_data[j]["id"] : j \in DOMAIN media_data}
        last(id) == CHOOSE j \in DOMAIN media_data :
                        /\ media_data[j]["id"] = id
                        /\ \A k \in DOMAIN media_data : media_data[k]["id"] = id => k <= j
    IN  [id \in ids |-> media_data[last(id)]]

\* _fetch_media_details after its fetch returned: None on a failed fetch,
\* KeyError when a record has no id, else the index
_fetch_media_details(isNone, media_data) ==
    IF isNone THEN [ok |-> TRUE, exc |-> "", imd |-> NoneImd]
    ELSE IF \E j \in DOMAIN media_data : ~Has(media_data[j], "id")
    THEN [ok |-> FALSE, exc |-> "KeyError:media_id", imd |-> EmptyImd]
    ELSE [ok |-> TRUE, exc |-> "", imd |-> [none |-> FALSE, map |-> MediaIndex(media_data)]]

\* the guard written as "if not image_media_data", which also holds of None
MediaUnfetched_Falsy(imd) == imd.none \/ DOMAIN imd.map = {}

\* "if image_media_data == {}": the media endpoint has to be fetched
MediaUnfetched(imd) == ~imd.none /\ DOMAIN imd.map = {}

\* image_media_data[header.get("id")] finds a record
LookupFound(imd, header) ==
    ~imd.none /\ Has(header, "id") /\ header["id"] \in DOMAIN imd.map

\* the None check left out
SkipSection_Never(imd, header) == FALSE

\* the skip extended to an id the index does not hold
SkipSection_OnMissing(imd, header) == imd.none \/ ~LookupFound(imd, header)

\* "if image_media_data is None: continue"
SkipSection(imd, header) == imd.none

\* sections.insert(0, section)
AppendSection_Prepend(sections, section) == <<section>> \o sections

\* sections.append(section)
AppendSection(sections, section) == Append(sections, section)

IsMediaType(section_type) == section_type \in {"MediaSection", "ImageSection"}

\* ------------------------------------------------------- _extract_sections
\* The for loop from descriptor i on, run to its next suspension point: the
\* await of the media fetch, the end of the list, or an exception.  resumed
\* says the loop continues right after that await, at descriptor i.
\* header.update(val) changes the descriptor in place; the loop reads every
\* descriptor once, so the merged descriptor is kept local (merged).
RECURSIVE extract_loop(_, _, _, _, _)
extract_loop(section_headers, i, sections, imd, resumed) ==
    IF i > Len(section_headers)
    THEN [st |-> "done", i |-> i, sections |-> sections, imd |-> imd, exc |-> ""]
    ELSE
    LET header == section_headers[i]
        stop(e) == [st |-> "raised", i |-> i, sections |-> sections, imd |-> imd, exc |-> e]
    IN  IF ~Has(header, "type") THEN stop("KeyError:type")
        ELSE
        LET s_type == _map_section(header["type"])
        IN  IF s_type = NoSchema THEN stop("TypeError:section_type")
            ELSE IF IsMediaType(s_type.section_type)
            THEN IF ~resumed /\ MediaUnfetched(imd)
                 THEN [st |-> "await_media", i |-> i, sections |-> sections,
                       imd |-> imd, exc |-> ""]
                 ELSE IF SkipSection(imd, header)
                 THEN extract_loop(section_headers, i + 1, sections, imd, FALSE)
                 ELSE IF imd.none THEN stop("TypeError:media_lookup")
                 ELSE IF ~LookupFound(imd, header) THEN stop("KeyError:media_lookup")
                 ELSE
                 LET merged == DictUpdate(header, imd.map[header["id"]])
                     s_type2 == _map_section(merged["type"])
                 IN  IF s_type2 = NoSchema THEN stop("TypeError:section_type")
                     ELSE
                     LET b == BuildSection(s_type2, merged)
                     IN  IF ~b.ok THEN stop(b.exc)
                         ELSE extract_loop(section_headers, i + 1,
                                           AppendSection(sections, b.section), imd, FALSE)
            ELSE
            LET b == BuildSection(s_type, header)
            IN  IF ~b.ok THEN stop(b.exc)
                ELSE extract_loop(section_headers, i + 1,
                                  AppendSection(sections, b.section), imd, FALSE)

\* -------------------------------------------------------- _extract_details
\* _extract_details up to the call of _extract_sections.  micro says whether
\* datetime.now() has non-zero microseconds.
_extract_details(response, micro) ==
    LET stop(e) == [ok |-> FALSE, exc |-> e, detail |-> EmptyDict]
    IN  IF ~Has(response, "id") THEN stop("KeyError:id")
        ELSE IF ~Has(response, "original_language") THEN stop("KeyError:original_language")
        ELSE IF ~Has(response, "pub_date") THEN stop("KeyError:pub_date")
        ELSE IF ~strptime_ok(response["pub_date"], ";") THEN stop("ValueError:pub_date")
        ELSE
        LET mod_date == IF Has(response, "mod_date") THEN response["mod_date"]
                        ELSE isoformat(NowInstant, micro)
        IN  IF ~strptime_ok(mod_date, ":") THEN stop("ValueError:mod_date")
            ELSE IF ~Has(response, "sections") THEN stop("TypeError:sections")
            ELSE
            LET copied == {k \in {"thumbnail", "author"} : Has(response, k)}
                sets == {k \in {"categories", "tags"} :
                            Has(response, IF k = "tags" THEN "tag" ELSE "category")}
                keys == {"id", "original_language", "url", "publication_date",
                         "modification_date"} \cup copied \cup sets
            IN  [ok |-> TRUE, exc |-> "",
                 detail |->
                   [k \in keys |->
                      CASE k = "url" -> ARTICLE_DETAIL_URL(response["id"])
                        [] k = "publication_date" -> to_datetime(response["pub_date"], ";")
                        [] k = "modification_date" -> to_datetime(mod_date, ":")
                        [] k = "categories" -> Range(response["category"])
                        [] k = "tags" -> Range(response["tag"])
                        [] OTHER -> response[k]]]

\* pydantic validation of Article(**detail): the url comes from the template,
\* the thumbnail must be a URL when there is one
ArticleValid(detail) ==
    /\ detail["url"][1] = "https://host/data/articles/"
    /\ Has(detail, "thumbnail") => IsHttpUrl(detail["thumbnail"])

\* ------------------------------------------------------- what the server holds
ArticleIds == <<"a1", "a2", "a3", "a4">>

\* raw section descriptors
SecTitle     == [type |-> "title", text |-> "T"]
SecText      == [type |-> "text", text |-> "body"]
SecHeader    == [type |-> "header", level |-> "1", text |-> "H"]
SecHeaderBad == [type |-> "header", text |-> "H"]
SecImage1    == [type |-> "image", id |-> "m1"]
SecMedia2    == [type |-> "media", id |-> "m2"]
SecImage3    == [type |-> "image", id |-> "m3"]
SecMediaNoId == [type |-> "media"]
SecUnknown   == [type |-> "quote", text |-> "q"]
SecNoType    == [text |-> "x"]

SectionPool == {SecTitle, SecText, SecHeader, SecHeaderBad, SecImage1, SecMedia2,
                SecImage3, SecMediaNoId, SecUnknown, SecNoType}

SectionLists == UNION {[1..n -> SectionPool] : n \in 0..MaxSections}

\* records of the media endpoint
RecImage1 == [id |-> "m1", type |-> "image", url |-> "https://x/y.jpg", alt |-> "A"]
RecMedia2 == [id |-> "m2", type |-> "media", url |-> "https://x/v.mp4",
              pub_date |-> PubDateStr, duration |-> "120"]
RecMedia1 == [id |-> "m1", type |-> "media", url |-> "https://x/v.mp4",
              pub_date |-> PubDateStr]
RecGif3   == [id |-> "m3", type |-> "gif", url |-> "https://x/y.jpg"]
RecBadUrl2 == [id |-> "m2", type |-> "image", url |-> "not a url"]

MediaFull == <<RecImage1, RecMedia2>>
MediaOdd  == <<RecMedia1, RecBadUrl2, RecGif3>>

\* the answer of one endpoint: what the transport returns and, for a JSON
\* body, its value
MediaOutcomes ==
    {[net |-> NetError, data |-> <<>>], [net |-> NetStatus(404), data |-> <<>>],
     [net |-> NetGarbage, data |-> <<>>], [net |-> NetJson, data |-> <<>>],
     [net |-> NetJson, data |-> MediaFull], [net |-> NetJson, data |-> MediaOdd]}

BasePayload(id, sections) ==
    [id |-> id, original_language |-> "en", pub_date |-> PubDateStr,
     mod_date |-> ModDateStr, sections |-> sections]

Without(d, k) == [x \in (DOMAIN d) \ {k} |-> d[x]]

With(d, k, v) == [x \in (DOMAIN d) \cup {k} |-> IF x = k THEN v ELSE d[x]]

World(net, payload, m, micro) ==
    [detail |-> net, payload |-> payload, media |-> m.net, media_data |-> m.data,
     micro |-> micro]

MediaOk == [net |-> NetJson, data |-> MediaFull]
MediaDown == [net |-> NetError, data |-> <<>>]

\* the detail payloads that differ from the base one outside the sections
TopLevelPayloads(id) ==
    LET b == BasePayload(id, <<SecTitle, SecImage1>>)
    IN  {Without(b, "mod_date"), With(b, "mod_date", ModDateSemi),
         Without(b, "id"), Without(b, "original_language"), Without(b, "pub_date"),
         With(b, "pub_date", BadDateStr), Without(b, "sections"),
         With(b, "thumbnail", "not a url"),
         With(With(With(With(b, "thumbnail", "https://x/y.jpg"), "author", "A N"),
                   "category", <<"news", "local", "news">>), "tag", <<"t">>),
         Without(BasePayload(id, <<SecTitle, SecHeader>>), "mod_date")}

\* the worlds one item resolution is explored in
ItemWorlds(id) ==
    {World(NetJson, BasePayload(id, sl), m, TRUE) : sl \in SectionLists, m \in MediaOutcomes}
    \cup {World(NetJson, p, MediaOk, micro) : p \in TopLevelPayloads(id), micro \in BOOLEAN}
    \cup {World(n, EmptyDict, MediaOk, TRUE) :
              n \in {NetError, NetStatus(500), NetGarbage, NetNull}}

\* the worlds of one heading in a polling cycle
CycleWorlds(id) ==
    {World(NetError, EmptyDict, MediaOk, TRUE),
     World(NetGarbage, EmptyDict, MediaOk, TRUE),
     World(NetJson, BasePayload(id, <<SecTitle, SecText>>), MediaOk, TRUE),
     World(NetJson, BasePayload(id, <<SecTitle, SecImage1>>), MediaOk, TRUE),
     World(NetJson, BasePayload(id, <<SecTitle, SecImage1>>), MediaDown, TRUE),
     World(NetJson, BasePayload(id, <<SecUnknown>>), MediaOk, TRUE),
     World(NetJson, BasePayload(id, <<SecTitle, SecImage3>>), MediaOk, TRUE),
     World(NetJson, Without(BasePayload(id, <<SecTitle>>), "mod_date"), MediaOk, TRUE)}

\* the answers to the GET of the catalog listing
ListingNets == {NetError, NetStatus(404), NetGarbage, NetNull, NetJson}

\* ------------------------------------------------------------------ state
VARIABLES
    rpc,       \* where execute is: "listing", "gather", "sleep", "crashed"
    cycle,     \* number of the polling cycle
    listing,   \* the answer to the last GET of the catalog listing
    server,    \* per heading of the cycle, what its two endpoints answer
    tasks      \* per heading of the cycle, the coroutine Article.details

vars == <<rpc, cycle, listing, server, tasks>>

\* Article.details up to its first await: the detail request is sent
NewTask ==
    [pc |-> "await_detail", section_headers |-> <<>>, i |-> 0, sections |-> <<>>,
     imd |-> EmptyImd, detail |-> EmptyDict, exc |-> "", result |-> "",
     item |-> EmptyDict, detailFetches |-> 1, mediaFetches |-> 0]

Raise(t, e) == [t EXCEPT !.pc = "raised", !.exc = e]

\* the task after extract_loop stopped: suspended on the media fetch, failed,
\* or past the loop, where details validates and prints the article
Settle(t, loop) ==
    LET u == [t EXCEPT !.i = loop.i, !.sections = loop.sections, !.imd = loop.imd]
    IN  IF loop.st = "await_media"
        THEN [u EXCEPT !.pc = "await_media", !.mediaFetches = @ + 1]
        ELSE IF loop.st = "raised" THEN Raise(u, loop.exc)
        ELSE LET detail == With(u.detail, "sections", loop.sections)
             IN  IF ArticleValid(detail)
                 THEN [u EXCEPT !.pc = "done", !.result = "article", !.item = detail,
                                !.detail = detail]
                 ELSE Raise([u EXCEPT !.detail = detail], "ValidationError:article")

\* Article.details from the answer of the detail endpoint to its next await
AfterDetail(t, w) ==
    LET r == fetch(w.detail)
    IN  IF r.raised THEN Raise(t, r.exc)
        ELSE IF r.none THEN [t EXCEPT !.pc = "done", !.result = "none"]
        ELSE LET d == _extract_details(w.payload, w.micro)
             IN  IF ~d.ok THEN Raise(t, d.exc)
                 ELSE LET u == [t EXCEPT !.detail = d.detail,
                                         !.section_headers = w.payload["sections"]]
                      IN  Settle(u, extract_loop(u.section_headers, 1, <<>>, EmptyImd, FALSE))

\* Article.details from the answer of the media endpoint to its next await
AfterMedia(t, w) ==
    LET r == fetch(w.media)
    IN  IF r.raised THEN Raise(t, r.exc)
        ELSE LET m == _fetch_media_details(r.none, w.media_data)
             IN  IF ~m.ok THEN Raise(t, m.exc)
                 ELSE Settle(t, extract_loop(t.section_headers, t.i, t.sections, m.imd, TRUE))

\* ---------------------------------------------------------------- actions
\* sync_session.get(LIST_OF_ARTICLES_URL).json() and the branch on headings:
\* requests raises on a connection error and json() on a body that is not
\* JSON (the body of an error status is taken to be such), nothing catches
\* either; a JSON null is the only answer that makes headings None
Listing ==
    /\ rpc = "listing"
    /\ \E net \in ListingNets :
         /\ listing' = net
         /\ IF net.kind = "transport_error" \/ net.body = "garbage"
            THEN rpc' = "crashed" /\ server' = <<>> /\ tasks' = <<>>
            ELSE IF net.body = "null"
            THEN rpc' = "sleep" /\ server' = <<>> /\ tasks' = <<>>
            ELSE \E n \in 0..MaxHeadings :
                   /\ server' \in [1..n -> UNION {CycleWorlds(ArticleIds[h]) : h \in 1..n}]
                   /\ \A h \in 1..n : server'[h] \in CycleWorlds(ArticleIds[h])
                   /\ tasks' = [h \in 1..n |-> NewTask]
                   /\ rpc' = "gather"
    /\ UNCHANGED cycle

DetailResponse(h) ==
    /\ rpc = "gather"
    /\ tasks[h].pc = "await_detail"
    /\ tasks' = [tasks EXCEPT ![h] = AfterDetail(tasks[h], server[h])]
    /\ UNCHANGED <<rpc, cycle, listing, server>>

MediaResponse(h) ==
    /\ rpc = "gather"
    /\ tasks[h].pc = "await_media"
    /\ tasks' = [tasks EXCEPT ![h] = AfterMedia(tasks[h], server[h])]
    /\ UNCHANGED <<rpc, cycle, listing, server>>

\* asyncio.gather without return_exceptions: the first exception of a task is
\* raised in execute, which leaves the loop; asyncio.run then cancels the
\* tasks that are still pending
GatherPropagate ==
    /\ rpc = "gather"
    /\ \E h \in DOMAIN tasks : tasks[h].pc = "raised"
    /\ rpc' = "crashed"
    /\ tasks' = [h \in DOMAIN tasks |->
                    IF tasks[h].pc \in {"await_detail", "await_media"}
                    THEN [tasks[h] EXCEPT !.pc = "cancelled"] ELSE tasks[h]]
    /\ UNCHANGED <<cycle, listing, server>>

GatherDone ==
    /\ rpc = "gather"
    /\ \A h \in DOMAIN tasks : tasks[h].pc = "done"
    /\ rpc' = "sleep"
    /\ UNCHANGED <<cycle, listing, server, tasks>>

\* time.sleep(delay) returns and the while loop starts over; the coroutines
\* of the finished gather are gone
Sleep ==
    /\ rpc = "sleep"
    /\ cycle < MaxCycles
    /\ rpc' = "listing"
    /\ cycle' = cycle + 1
    /\ server' = <<>>
    /\ tasks' = <<>>
    /\ UNCHANGED listing

Init ==
    /\ rpc = "listing"
    /\ cycle = 1
    /\ listing = NetNone
    /\ server = <<>>
    /\ tasks = <<>>

Next ==
    \/ Listing
    \/ \E h \in DOMAIN tasks : DetailResponse(h)
    \/ \E h \in DOMAIN tasks : MediaResponse(h)
    \/ GatherPropagate
    \/ GatherDone
    \/ Sleep

Spec == Init /\ [][Next]_vars

\* one item resolution: the catalog listed a single heading
InitItem ==
    /\ rpc = "gather"
    /\ cycle = 1
    /\ listing = NetJson
    /\ server \in [1..1 -> ItemWorlds(ArticleIds[1])]
    /\ tasks = <<NewTask>>

NextItem ==
    \/ DetailResponse(1)
    \/ MediaResponse(1)
    \/ GatherPropagate
    \/ GatherDone

SpecItem == InitItem /\ [][NextItem]_vars

\* ------------------------------------------------------------ properties
Finished(t) == t.pc \in {"done", "raised"}

IsMediaRef(header) == Has(header, "type") /\ header["type"] \in {"image", "media"}

HasUnknownType(header) == Has(header, "type") /\ header["type"] \notin DOMAIN mapper

\* what Article.details does with the answers of world w when it runs alone
ResolveAlone(w) ==
    LET t1 == AfterDetail(NewTask, w)
    IN  IF t1.pc = "await_media" THEN AfterMedia(t1, w) ELSE t1

\* the world w with the section descriptors satisfying Drop removed
Strip(w, Drop(_)) ==
    IF Has(w.payload, "sections")
    THEN [w EXCEPT !.payload =
             With(w.payload, "sections",
                  SelectSeq(w.payload["sections"], LAMBDA hd : ~Drop(hd)))]
    ELSE w

SameOutcome(t, u) ==
    /\ t.pc = u.pc /\ t.exc = u.exc /\ t.result = u.result /\ t.item = u.item

\* C1: no failure inside one item's resolution cancels another item's
\* resolution or propagates out of the fan-out to the cycle
C1_FailureIsolated ==
    /\ \A h \in DOMAIN tasks : tasks[h].pc # "cancelled"
    /\ (\E h \in DOMAIN tasks : tasks[h].pc = "raised") => rpc # "crashed"

\* C2: one item resolution fetches the media endpoint at most once
C2_MediaFetchedAtMostOnce ==
    \A h \in DOMAIN tasks : tasks[h].mediaFetches <= 1

C2_Witness ==
    \E h \in DOMAIN tasks :
        LET t == tasks[h]
        IN  /\ t.pc = "done" /\ t.result = "article"
            /\ t.mediaFetches = 1 /\ t.imd.none
            /\ Cardinality({j \in DOMAIN t.section_headers :
                               IsMediaRef(t.section_headers[j])}) >= 2

\* C3: when the media fetch returned None, no image or media section is in
\* the result, and the resolution ends exactly as the resolution of the same
\* payload without its image/media descriptors; in particular the other
\* sections are those a successful media fetch leaves around the media ones
C3_MediaFailureDropsOnlyMedia ==
    \A h \in DOMAIN tasks :
        LET t == tasks[h]
            w == server[h]
            ref == ResolveAlone(Strip(w, IsMediaRef))
            good == ResolveAlone([w EXCEPT !.media = NetJson, !.media_data = MediaFull])
        IN  (Finished(t) /\ t.imd.none) =>
              /\ \A k \in DOMAIN t.sections : t.sections[k]["type"] \notin {"image", "media"}
              /\ SameOutcome(t, ref)
              /\ good.result = "article" =>
                    /\ t.result = "article"
                    /\ t.item["sections"] =
                         SelectSeq(good.item["sections"],
                                   LAMBDA sec : sec["type"] \notin {"image", "media"})

C3_Witness ==
    \E h \in DOMAIN tasks :
        LET t == tasks[h]
        IN  /\ t.result = "article" /\ t.imd.none /\ t.mediaFetches = 1
            /\ Len(t.item["sections"]) >= 1
            /\ \E j \in DOMAIN t.section_headers : IsMediaRef(t.section_headers[j])

\* C4: a descriptor of unknown type is dropped, the others are mapped and the
\* item resolves as if the descriptor was not there
C4_UnknownTypeSkipped ==
    \A h \in DOMAIN tasks :
        LET t == tasks[h]
            ref == ResolveAlone(Strip(server[h], HasUnknownType))
        IN  Finished(t) =>
              /\ t.exc # "TypeError:section_type"
              /\ ref.result = "article" => SameOutcome(t, ref)

\* C5: fetch never raises: a task never ends with an exception that left
\* fetch, and an answer whose body does not parse gives None
C5_FetchNeverRaises ==
    \A h \in DOMAIN tasks :
        /\ tasks[h].exc # "JSONDecodeError:fetch"
        /\ (tasks[h].pc # "await_detail" /\ server[h].detail.body = "garbage")
              => tasks[h].result = "none"

\* C6: when the detail fetch fails for exactly one heading of the cycle, that
\* heading gives no item and is fetched once, and every other heading ends
\* with the item it gives when it is resolved alone
C6_OneFailedHeading ==
    LET failed == {h \in DOMAIN tasks : fetch(server[h].detail).none}
    IN  (rpc \in {"sleep", "crashed"} /\ Cardinality(failed) = 1) =>
          \A h \in DOMAIN tasks :
              IF h \in failed
              THEN tasks[h].result = "none" /\ tasks[h].detailFetches = 1
              ELSE /\ tasks[h].result = ResolveAlone(server[h]).result
                   /\ tasks[h].item = ResolveAlone(server[h]).item

\* C7: a payload that omits mod_date and is otherwise valid resolves, with
\* the modification instant set to the resolution time
C7_ModDateDefaultsToNow ==
    \A h \in DOMAIN tasks :
        LET t == tasks[h]
            w == server[h]
            full == [w EXCEPT !.payload = With(w.payload, "mod_date", ModDateStr)]
        IN  (/\ Finished(t)
             /\ ~fetch(w.detail).none /\ ~fetch(w.detail).raised
             /\ ~Has(w.payload, "mod_date")
             /\ ResolveAlone(full).result = "article") =>
              /\ t.result = "article"
              /\ t.item["modification_date"] = NowInstant

\* the section descriptor header maps to under media index imd, if any
MapOne(header, imd) ==
    IF ~Has(header, "type") \/ HasUnknownType(header)
    THEN [ok |-> FALSE, exc |-> "", section |-> EmptyDict]
    ELSE IF IsMediaRef(header)
    THEN IF LookupFound(imd, header)
         THEN LET merged == DictUpdate(header, imd.map[header["id"]])
              IN  IF merged["type"] \in DOMAIN mapper
                  THEN BuildSection(mapper[merged["type"]], merged)
                  ELSE [ok |-> FALSE, exc |-> "", section |-> EmptyDict]
         ELSE [ok |-> FALSE, exc |-> "", section |-> EmptyDict]
    ELSE BuildSection(mapper[header["type"]], header)

\* sections from position k on are, in order, the sections of distinct
\* descriptors from position j on
RECURSIVE SubseqFrom(_, _, _, _, _)
SubseqFrom(sections, k, headers, j, imd) ==
    IF k > Len(sections) THEN TRUE
    ELSE IF j > Len(headers) THEN FALSE
    ELSE \/ /\ MapOne(headers[j], imd).ok
            /\ MapOne(headers[j], imd).section = sections[k]
            /\ SubseqFrom(sections, k + 1, headers, j + 1, imd)
         \/ SubseqFrom(sections, k, headers, j + 1, imd)

\* C8: the sections of a resolved item are an order-preserving subsequence of
\* the payload's descriptors, at most one section per descriptor
C8_SectionsInPayloadOrder ==
    \A h \in DOMAIN tasks :
        LET t == tasks[h]
        IN  t.result = "article" =>
              /\ Len(t.item["sections"]) <= Len(server[h].payload["sections"])
              /\ SubseqFrom(t.item["sections"], 1, server[h].payload["sections"], 1, t.imd)

C8_Witness ==
    \E h \in DOMAIN tasks :
        LET t == tasks[h]
        IN  /\ t.result = "article"
            /\ Len(t.item["sections"]) = 2
            /\ t.item["sections"][1] # t.item["sections"][2]
            /\ Len(server[h].payload["sections"]) = 3

\* C9: a cycle whose catalog listing fails is only aborted: execute goes on
\* to the delay and the next cycle
C9_ListingFailureAbortsCycleOnly ==
    (listing.kind = "transport_error" \/ listing.status >= 400 \/ listing.body = "garbage")
        => rpc \in {"sleep", "listing"}

\* the first image/media descriptor whose id the index does not hold, or 0
FirstMissing(headers, index) ==
    LET miss == {j \in DOMAIN headers :
                    /\ IsMediaRef(headers[j])
                    /\ ~(Has(headers[j], "id") /\ headers[j]["id"] \in DOMAIN index)}
    IN  IF miss = {} THEN 0 ELSE CHOOSE j \in miss : \A k \in miss : j <= k

\* C10: when the media index was fetched and lacks the id of an image/media
\* descriptor, the resolution raises at that descriptor at the latest (there
\* on the lookup) and no item is produced
C10_MissingMediaIdRaises ==
    \A h \in DOMAIN tasks :
        LET t == tasks[h]
            w == server[h]
            miss == FirstMissing(t.section_headers, MediaIndex(w.media_data))
        IN  (/\ Finished(t) /\ t.mediaFetches = 1
             /\ ~fetch(w.media).none /\ ~fetch(w.media).raised
             /\ miss # 0) =>
              /\ t.pc = "raised" /\ t.result # "article" /\ t.item = EmptyDict
              /\ t.i <= miss
              /\ t.i = miss => t.exc = "KeyError:media_lookup"

C10_Witness ==
    \E h \in DOMAIN tasks :
        /\ tasks[h].pc = "raised" /\ tasks[h].exc = "KeyError:media_lookup"
        /\ tasks[h].mediaFetches = 1
        /\ server[h].media = NetJson /\ server[h].media_data = <<>>

====
